---------------------------- MODULE Spec2Model ----------------------------
(***************************************************************************)
(* A state-machine model of the aircraft viewer of src/src/App.tsx (the    *)
(* current application, lines 1-522): the preference store                 *)
(* (useLocalStorage), the selection and panel state of App, the DOM events *)
(* that reach its handlers, the per-frame rotation of Airplane and of its  *)
(* blades and spinners, the position of the directional light, and the    *)
(* hotspots shown over the model.                                          *)
(*                                                                         *)
(* Numbers are fixed-point: a JavaScript number x is the integer 10*x      *)
(* ("tenths"), which is exact for every value a control of the panel can   *)
(* produce (steps of 0.1 and of 1).  Texts (localStorage items, the value  *)
(* strings of range inputs) are sequences of one-character strings.        *)
(* A frame's delta is counted in hundredths of a second, so that a yaw is  *)
(* counted in thousandths of a radian (tenths * hundredths).               *)
(***************************************************************************)
EXTENDS Integers, Sequences, FiniteSets, TLC

VARIABLES
    storage,        \* window.localStorage: key -> [present, text]
    memory,         \* storedValue of each useLocalStorage hook: key -> value
    isPanelOpen,    \* App: useState(false)
    activePoint,    \* App: useState<PointData | null>(null), a point id or Null
    isLoading,      \* useLoading().isLoading
    modelMounted,   \* Airplane is mounted: modelRef.current is the group
    scene,          \* names of the objects in the graph of the loaded model
    blades,         \* Airplane: useState<Object3D[]>([]), the blades found
    spinners,       \* Airplane: useState<Object3D[]>([]), the spinners found
    partRot,        \* part name -> its own rotation (rotation.x of a blade,
                    \* rotation.y of a spinner), in thousandths of a radian
    frameError,     \* the last frame callback threw
    occluded,       \* the anchors that the model's geometry hides from the camera
    catalog,        \* the catalog App hands to Airplane (its points prop)
    build,          \* the build of React the page runs: development or production
    keyWarning,     \* React has reported children with the same key
    dots,           \* LoadingAnimation: useState(1)
    intervals,      \* intervals LoadingAnimation has registered and not cleared
    yaw,            \* modelRef.current.rotation.y, in thousandths of a radian
    clock,          \* time the render loop has run, in hundredths of a second
    listeners,      \* handleClickOutside registrations on document ('mousedown')
    view,           \* what the last commit of App rendered (see AppRender)
    pending,        \* target of a pointerdown whose mousedown is still to come
    pressed,        \* target the pointer is held down on
    dispatched,     \* the DOM event the last step dispatched (NoEvent when it
                    \* dispatched none) and the handlers the event reached
    edits           \* number of preference edits made (bounded by MaxEdits)

vars == <<storage, memory, isPanelOpen, activePoint, isLoading,
          modelMounted, scene, blades, spinners, partRot, frameError,
          occluded, catalog, build, keyWarning, dots, intervals, yaw, clock, listeners, view, pending, pressed, dispatched, edits>>

\* the state of the 3D scene that only Airplane's own steps change
partVars == <<scene, blades, spinners, partRot, frameError, occluded,
              catalog, build>>

-----------------------------------------------------------------------------
(* Bounds of the model. *)

\* preference edits (setter calls from the panel's controls) in one behaviour
MaxEdits == 1
\* time the render loop runs, in hundredths of a second
MaxClock == 2
\* entries persistent storage may hold when the page is loaded
MaxStartupEntries == 1
\* setItem calls that throw during one reset
MaxFaults == 1
\* anchors hidden behind the model's geometry at one time
MaxOccluded == 1
\* points in a catalog handed to Airplane
MaxCatalog == 2

-----------------------------------------------------------------------------
(* JavaScript values: t is the type, n the number (tenths) or the boolean  *)
(* (1 = true, 0 = false), s the characters of a string.                    *)

Bool(b) == [t |-> "bool", n |-> IF b THEN 1 ELSE 0, s |-> <<>>]
Num(n) == [t |-> "num", n |-> n, s |-> <<>>]
Str(s) == [t |-> "str", n |-> 0, s |-> s]
NullValue == [t |-> "null", n |-> 0, s |-> <<>>]
ObjValue == [t |-> "obj", n |-> 0, s |-> <<>>]

\* ToBoolean of a value: false, 0, null and "" are falsy
Truthy(v) ==
    CASE v.t = "bool" -> v.n = 1
      [] v.t = "num" -> v.n # 0
      [] v.t = "str" -> v.s # <<>>
      [] v.t = "null" -> FALSE
      [] OTHER -> TRUE

\* !v
Not(v) == Bool(~Truthy(v))

-----------------------------------------------------------------------------
(* Texts, and the conversions between texts and values.                    *)

DigitChars == <<"0", "1", "2", "3", "4", "5", "6", "7", "8", "9">>

IsDigit(c) == \E i \in 1..Len(DigitChars) : DigitChars[i] = c

DigitVal(c) == (CHOOSE i \in 1..Len(DigitChars) : DigitChars[i] = c) - 1

AllDigits(txt) == \A i \in 1..Len(txt) : IsDigit(txt[i])

RECURSIVE DigitsToNat(_)
DigitsToNat(txt) ==
    IF txt = <<>> THEN 0
    ELSE 10 * DigitsToNat(SubSeq(txt, 1, Len(txt) - 1)) + DigitVal(txt[Len(txt)])

RECURSIVE NatToDigits(_)
NatToDigits(k) ==
    IF k < 10 THEN <<DigitChars[k + 1]>>
    ELSE NatToDigits(k \div 10) \o <<DigitChars[(k % 10) + 1]>>

\* position of the first "." of a text, 0 when it has none
DotAt(txt) ==
    IF \E i \in 1..Len(txt) : txt[i] = "."
    THEN CHOOSE i \in 1..Len(txt) : txt[i] = "." /\ \A j \in 1..(i - 1) : txt[j] # "."
    ELSE 0

\* the JSON grammar of an unsigned number, to one fractional digit (the
\* resolution of the model): int | int "." digit, int without leading zeros
IsJsonUnsigned(txt) ==
    LET d == DotAt(txt)
        ip == IF d = 0 THEN txt ELSE SubSeq(txt, 1, d - 1)
        fp == IF d = 0 THEN <<>> ELSE SubSeq(txt, d + 1, Len(txt))
    IN  /\ ip # <<>>
        /\ AllDigits(ip)
        /\ (Len(ip) > 1 => ip[1] # "0")
        /\ (d # 0 => Len(fp) = 1 /\ AllDigits(fp))

UnsignedTenths(txt) ==
    LET d == DotAt(txt)
        ip == IF d = 0 THEN txt ELSE SubSeq(txt, 1, d - 1)
        fp == IF d = 0 THEN <<>> ELSE SubSeq(txt, d + 1, Len(txt))
    IN  10 * DigitsToNat(ip) + (IF fp = <<>> THEN 0 ELSE DigitVal(fp[1]))

IsJsonNumber(txt) ==
    /\ txt # <<>>
    /\ IF txt[1] = "-" THEN IsJsonUnsigned(Tail(txt)) ELSE IsJsonUnsigned(txt)

JsonNumberTenths(txt) ==
    IF txt[1] = "-" THEN 0 - UnsignedTenths(Tail(txt)) ELSE UnsignedTenths(txt)

IsJsonString(txt) ==
    /\ Len(txt) >= 2
    /\ txt[1] = "\""
    /\ txt[Len(txt)] = "\""
    /\ \A i \in 2..(Len(txt) - 1) : txt[i] \notin {"\"", "\\"}

\* JSON.parse(txt): [ok |-> FALSE] is a thrown SyntaxError
JSONparse(txt) ==
    CASE txt = <<"t", "r", "u", "e">> -> [ok |-> TRUE, v |-> Bool(TRUE)]
      [] txt = <<"f", "a", "l", "s", "e">> -> [ok |-> TRUE, v |-> Bool(FALSE)]
      [] txt = <<"n", "u", "l", "l">> -> [ok |-> TRUE, v |-> NullValue]
      [] txt = <<"{", "}">> -> [ok |-> TRUE, v |-> ObjValue]
      [] IsJsonString(txt) -> [ok |-> TRUE, v |-> Str(SubSeq(txt, 2, Len(txt) - 1))]
      [] IsJsonNumber(txt) -> [ok |-> TRUE, v |-> Num(JsonNumberTenths(txt))]
      [] OTHER -> [ok |-> FALSE, v |-> NullValue]

\* the text of a number, as Number.prototype.toString gives it
NumberText(n) ==
    LET a == IF n < 0 THEN 0 - n ELSE n
        body == NatToDigits(a \div 10)
                  \o (IF a % 10 = 0 THEN <<>> ELSE <<".", DigitChars[(a % 10) + 1]>>)
    IN  IF n < 0 THEN <<"-">> \o body ELSE body

\* JSON.stringify(v)
JSONstringify(v) ==
    CASE v.t = "bool" -> IF v.n = 1 THEN <<"t", "r", "u", "e">>
                         ELSE <<"f", "a", "l", "s", "e">>
      [] v.t = "num" -> NumberText(v.n)
      [] v.t = "str" -> <<"\"">> \o v.s \o <<"\"">>
      [] v.t = "null" -> <<"n", "u", "l", "l">>
      [] OTHER -> <<"{", "}">>

\* parseFloat(txt) of the value string of a range input (always a number text)
parseFloat(txt) == Num(JsonNumberTenths(txt))

\* parseInt(txt, 10) of the value string of a range input: the integer part
parseInt(txt) ==
    LET d == DotAt(txt)
    IN  Num(JsonNumberTenths(IF d = 0 THEN txt ELSE SubSeq(txt, 1, d - 1)))

-----------------------------------------------------------------------------
(* The preference store.                                                   *)

Keys == {"isAutoRotating", "ambientIntensity", "directionalIntensity",
         "lightAngle", "showPoints", "pointSize", "rotationSpeed",
         "isPropellerSpinning", "propellerSpeed"}

\* the initialValue each useLocalStorage call of App supplies
Defaults ==
    [k \in Keys |->
        CASE k = "isAutoRotating" -> Bool(TRUE)
          [] k = "ambientIntensity" -> Num(0)
          [] k = "directionalIntensity" -> Num(7)
          [] k = "lightAngle" -> Num(450)
          [] k = "showPoints" -> Bool(TRUE)
          [] k = "pointSize" -> Num(10)
          [] k = "rotationSpeed" -> Num(3)
          [] k = "isPropellerSpinning" -> Bool(TRUE)
          [] k = "propellerSpeed" -> Num(150)]

Absent == [present |-> FALSE, text |-> <<>>]
Item(txt) == [present |-> TRUE, text |-> txt]

EmptyStorage == [k \in Keys |-> Absent]

\* a load that falls back to the default for every falsy parsed value
LoadValue_falsyDefault(st, key, initialValue) ==
    LET item == st[key]
        r == JSONparse(item.text)
    IN  IF item.present /\ item.text # <<>> /\ r.ok /\ Truthy(r.v)
        THEN r.v ELSE initialValue

\* the initialiser of useLocalStorage's useState: getItem, then
\* item ? JSON.parse(item) : initialValue, the default when parse throws
LoadValue(st, key, initialValue) ==
    LET item == st[key]
    IN  IF item.present /\ item.text # <<>>
        THEN LET r == JSONparse(item.text)
             IN  IF r.ok THEN r.v ELSE initialValue
        ELSE initialValue


\* every hook of App initialised from storage (App.tsx lines 234-243)
LoadAll(st) == [k \in Keys |-> LoadValue(st, k, Defaults[k])]

\* a setter that sets the field and writes nothing
SetValue_memoryOnly(ms, key, value) ==
    [mem |-> [ms.mem EXCEPT ![key] = value], st |-> ms.st]

\* setValue of useLocalStorage: setStoredValue(value), then
\* setItem(key, JSON.stringify(value)); ms is [mem, st]
SetValue(ms, key, value) ==
    [mem |-> [ms.mem EXCEPT ![key] = value],
     st |-> [ms.st EXCEPT ![key] = Item(JSONstringify(value))]]

\* localStorage.removeItem(key)
RemoveItem(ms, key) == [mem |-> ms.mem, st |-> [ms.st EXCEPT ![key] = Absent]]

\* the order in which resetSettings sets the fields, and removes the entries
ResetOrder == <<"isAutoRotating", "ambientIntensity", "directionalIntensity",
                "lightAngle", "showPoints", "pointSize", "rotationSpeed",
                "isPropellerSpinning", "propellerSpeed">>

RECURSIVE SetDefaults(_, _)
SetDefaults(ms, i) ==
    IF i > Len(ResetOrder) THEN ms
    ELSE SetDefaults(SetValue(ms, ResetOrder[i], Defaults[ResetOrder[i]]), i + 1)

RECURSIVE RemoveAll(_, _)
RemoveAll(ms, i) ==
    IF i > Len(ResetOrder) THEN ms
    ELSE RemoveAll(RemoveItem(ms, ResetOrder[i]), i + 1)

\* a reset that sets the fields and leaves the nine entries in storage
resetSettings_noRemove(ms) == SetDefaults(ms, 1)

\* resetSettings: nine setters with the literal defaults, then nine removeItem
resetSettings(ms) == RemoveAll(SetDefaults(ms, 1), 1)

-----------------------------------------------------------------------------
(* The anchor catalog.                                                     *)

\* the catalog of the earlier variants: three anchors, the pilot's cabin
\* ("cockpit"), the engine and the wing
mockPoints_threeAnchors ==
    << [id |-> "cockpit", position |-> <<0, 5, -10>>],
       [id |-> "engine", position |-> <<3, 3, -7>>],
       [id |-> "wing", position |-> <<-10, 3, -2>>] >>

mockPoints ==
    << [id |-> "fuselage", position |-> <<5, 8, 5>>],
       [id |-> "blade", position |-> <<3, 8, 5>>],
       [id |-> "keel", position |-> <<1, 8, 5>>],
       [id |-> "radio", position |-> <<-1, 8, 5>>],
       [id |-> "plates", position |-> <<-3, 8, 5>>],
       [id |-> "oxygen", position |-> <<-5, 8, 5>>] >>

PointIds == {mockPoints[i].id : i \in 1..Len(mockPoints)}

\* activePoint when no point is selected
Null == "null"

-----------------------------------------------------------------------------
(* What App renders from its state.                                        *)

\* whether ToNumber of a value is NaN: an object, a text that is no number
IsNaN(v) ==
    \/ v.t = "obj"
    \/ v.t = "str" /\ v.s # <<>> /\ ~IsJsonNumber(v.s)

\* ToNumber of a value that is not NaN, in tenths
ToNumber(v) ==
    CASE v.t = "num" -> v.n
      [] v.t = "bool" -> 10 * v.n
      [] v.t = "str" /\ v.s # <<>> -> JsonNumberTenths(v.s)
      [] OTHER -> 0

\* Math.cos and Math.sin in fixed point.  An angle of a tenths of a degree
\* is folded into the first half-quadrant, where the series are summed on
\* x = the angle in thousandths of a radian; the results are thousandths,
\* within 2 thousandths of the floating-point values.
MilliRad(a) == (a * 17453) \div 10000

CosSeries(x) ==
    LET x2 == (x * x) \div 1000
        x4 == (x2 * x2) \div 1000
        x6 == (x2 * x4) \div 1000
    IN  1000 - x2 \div 2 + x4 \div 24 - x6 \div 720

SinSeries(x) ==
    LET x2 == (x * x) \div 1000
        x4 == (x2 * x2) \div 1000
    IN  x - (x * x2) \div 6000 + (x * x4) \div 120000

\* the cosine of an angle of the first quadrant (0..900 tenths of a degree)
CosQuadrant(r) ==
    IF r <= 450 THEN CosSeries(MilliRad(r)) ELSE SinSeries(MilliRad(900 - r))

Cos(a) ==
    LET r == a % 3600
    IN  CASE r <= 900 -> CosQuadrant(r)
          [] r > 900 /\ r <= 1800 -> 0 - CosQuadrant(1800 - r)
          [] r > 1800 /\ r <= 2700 -> 0 - CosQuadrant(r - 1800)
          [] OTHER -> CosQuadrant(3600 - r)

Sin(a) == Cos(a - 900)

\* a light position that swaps the cosine and the sine
calculateLightPosition_swapped ==
    LET lightAngle == memory["lightAngle"]
        a == ToNumber(lightAngle)
    IN  IF IsNaN(lightAngle) THEN [nan |-> TRUE, x |-> 0, y |-> 10000, z |-> 0]
        ELSE [nan |-> FALSE, x |-> 10 * Sin(a), y |-> 10000, z |-> 10 * Cos(a)]

\* calculateLightPosition: [radius * cos(angleRad), height, radius *
\* sin(angleRad)] with radius = height = 10, in thousandths; x and z are
\* NaN (nan is TRUE) when lightAngle is not a number
calculateLightPosition ==
    LET lightAngle == memory["lightAngle"]
        a == ToNumber(lightAngle)
    IN  IF IsNaN(lightAngle) THEN [nan |-> TRUE, x |-> 0, y |-> 10000, z |-> 0]
        ELSE [nan |-> FALSE, x |-> 10 * Cos(a), y |-> 10000, z |-> 10 * Sin(a)]

\* a visibility that forgets the selection: showPoints alone
arePointsActuallyVisible_showPointsOnly == Truthy(memory["showPoints"])

\* showPoints && !activePoint
arePointsActuallyVisible == Truthy(memory["showPoints"]) /\ activePoint = Null

\* a rotation flag that forgets the selection: isAutoRotating alone
actualIsRotating_toggleOnly == Truthy(memory["isAutoRotating"])

\* isAutoRotating && !activePoint
actualIsRotating == Truthy(memory["isAutoRotating"]) /\ activePoint = Null

\* orbit controls without the enabled prop
OrbitControlsEnabled_always == TRUE

\* <OrbitControls enabled={!activePoint} />
OrbitControlsEnabled == activePoint = Null

\* an Airplane that renders its points whatever arePointsVisible is
AirplaneOverlays_ungated(arePointsVisible, points) ==
    {points[i].id : i \in 1..Len(points)}

\* the InteractivePoints Airplane returns: arePointsVisible && points.map(...),
\* one per point, keyed by its id, each with isVisible = true
AirplaneOverlays(arePointsVisible, points) ==
    IF arePointsVisible THEN {points[i].id : i \in 1..Len(points)} ELSE {}

\* the keys of the children Airplane returns: key={point.id}, in the order
\* of the catalog, one for every point
AirplaneKeys(arePointsVisible, pts) ==
    IF arePointsVisible THEN [i \in 1..Len(pts) |-> pts[i].id] ELSE <<>>

Builds == {"development", "production"}

\* what React does with a list of children in which two have the same key:
\* the development build reports it (console.error), the production build
\* says nothing
DuplicateKeyWarning(b, keys) ==
    /\ b = "development"
    /\ \E i, j \in 1..Len(keys) : i < j /\ keys[i] = keys[j]

\* the element tree App returns, as far as the model reads it
AppRender ==
    [overlays |-> AirplaneOverlays(arePointsActuallyVisible, catalog),
     isAutoRotating |-> actualIsRotating,
     rotationSpeed |-> memory["rotationSpeed"],
     isPropellerSpinning |-> Truthy(memory["isPropellerSpinning"]),
     propellerSpeed |-> memory["propellerSpeed"],
     directionalLightPosition |-> calculateLightPosition,
     orbitEnabled |-> OrbitControlsEnabled,
     infoBox |-> activePoint,
     button |-> ~isLoading,
     loading |-> isLoading,
     panelOpen |-> isPanelOpen]

\* a loading effect without its cleanup
LoadingEffect_noCleanup(n, was, now) == IF now THEN n + 1 ELSE n

\* the effect of LoadingAnimation (useEffect(..., [])) when a commit mounts
\* it (now) or unmounts it (was), on n registered intervals: the mount
\* calls setInterval, the unmount runs the cleanup, clearInterval
LoadingEffect(n, was, now) ==
    LET cleaned == IF was THEN n - 1 ELSE n
    IN  IF now THEN cleaned + 1 ELSE cleaned

\* the callback of the interval: setDots(prev => prev < 3 ? prev + 1 : 1)
NextDots(prevDots) == IF prevDots < 3 THEN prevDots + 1 ELSE 1

\* an effect without its cleanup
PanelEffect_noCleanup(n, was, now) == IF now THEN n + 1 ELSE n

\* the effect of useEffect(..., [isPanelOpen]) when a commit changes isPanelOpen
\* from `was` to `now`, on n registrations: the cleanup of the last run removes
\* the handler that run added (if it added one), the new run adds its own
PanelEffect(n, was, now) ==
    LET cleaned == IF was THEN n - 1 ELSE n
    IN  IF now THEN cleaned + 1 ELSE cleaned

\* the registrations after a commit: the effect runs only when isPanelOpen changed
AfterCommit(n, was, now) == IF was = now THEN n ELSE PanelEffect(n, was, now)


-----------------------------------------------------------------------------
(* The DOM, and the dispatch of an event along the path from its target.   *)

\* the elements an event can have as its target, besides the hotspots:
\* the trigger button, the panel and the reset button in it, the parts of
\* the InfoBox, and the 3D canvas
FixedTargets == {"button", "panel", "resetButton", "backdrop", "infoBox",
                 "closeButton", "canvas"}

Targets == FixedTargets \cup PointIds

None == "none"

\* the elements a click can be made on from the keyboard (buttons)
KeyboardTargets == {"button", "resetButton", "closeButton"}

\* whether the target is in the document after the last commit
TargetExists(t) ==
    CASE t = "button" -> view.button
      [] t \in {"backdrop", "infoBox", "closeButton"} -> view.infoBox # Null
      [] t \in PointIds -> modelMounted /\ t \in view.overlays
      [] OTHER -> TRUE

\* a document in which the reset button sits inside the trigger button
Path_resetInTrigger(t) ==
    CASE t = "closeButton" -> <<"closeButton", "infoBox", "backdrop", "container">>
      [] t = "infoBox" -> <<"infoBox", "backdrop", "container">>
      [] t = "backdrop" -> <<"backdrop", "container">>
      [] t = "button" -> <<"button", "container">>
      [] t = "resetButton" -> <<"resetButton", "button", "container">>
      [] t = "panel" -> <<"panel", "container">>
      [] t = "canvas" -> <<"canvas", "canvasHost", "container">>
      [] OTHER -> <<t, "canvasHost", "container">>

\* the target and its ancestors, innermost first.  "canvasHost" is the
\* element around the canvas that the hotspots' Html is attached to and
\* that OrbitControls listens on
Path(t) ==
    CASE t = "closeButton" -> <<"closeButton", "infoBox", "backdrop", "container">>
      [] t = "infoBox" -> <<"infoBox", "backdrop", "container">>
      [] t = "backdrop" -> <<"backdrop", "container">>
      [] t = "button" -> <<"button", "container">>
      [] t = "resetButton" -> <<"resetButton", "panel", "container">>
      [] t = "panel" -> <<"panel", "container">>
      [] t = "canvas" -> <<"canvas", "canvasHost", "container">>
      [] OTHER -> <<t, "canvasHost", "container">>

\* the elements with a handler for the event type
HasHandler(type, node) ==
    CASE type = "pointerdown" -> node \in PointIds \cup {"canvasHost"}
      [] type = "click" -> node \in {"closeButton", "infoBox", "backdrop",
                                     "button", "resetButton"}
      [] OTHER -> FALSE

\* a hotspot handler that does not stop the pointerdown
StopsPropagation_clickOnly(type, node) == type = "click" /\ node = "infoBox"

\* an InfoBox whose box does not stop the click
StopsPropagation_pointerOnly(type, node) == type = "pointerdown" /\ node \in PointIds

\* the handlers that call e.stopPropagation(): InteractivePoint.handleClick
\* (pointerdown) and the onClick of the InfoBox's box
StopsPropagation(type, node) ==
    \/ type = "pointerdown" /\ node \in PointIds
    \/ type = "click" /\ node = "infoBox"

\* the elements whose handler the event reaches, in bubbling order
RECURSIVE Deliver(_, _)
Deliver(type, path) ==
    IF path = <<>> THEN <<>>
    ELSE IF ~HasHandler(type, Head(path)) THEN Deliver(type, Tail(path))
    ELSE IF StopsPropagation(type, Head(path)) THEN <<Head(path)>>
    ELSE <<Head(path)>> \o Deliver(type, Tail(path))

Reached(d, node) == \E i \in 1..Len(d) : d[i] = node

Event(type, target, reached) == [type |-> type, target |-> target, reached |-> reached]

NoEvent == Event(None, None, <<>>)

\* handlePointClick(point): the new activePoint
handlePointClick(point) == point

\* handleCloseInfoBox(): the new activePoint
handleCloseInfoBox == Null

\* InteractivePoint.handleClick: onClick(pointData), pointData the point the
\* hotspot was rendered for
PointActivated(d, current) ==
    IF \E a \in PointIds : Reached(d, a)
    THEN handlePointClick(CHOOSE a \in PointIds : Reached(d, a))
    ELSE current

\* an outside-click handler without the exclusion of the trigger button
handleClickOutside_noButtonCheck(target, open) ==
    IF target \notin {"panel", "resetButton"} THEN FALSE ELSE open

\* handleClickOutside(event), the new isPanelOpen: nothing when the trigger
\* button is mounted and contains the target, closed when the target is
\* outside the panel
handleClickOutside(target, open) ==
    IF view.button /\ target = "button" THEN open
    ELSE IF target \notin {"panel", "resetButton"} THEN FALSE
    ELSE open


-----------------------------------------------------------------------------
(* The controls of the panel.                                              *)

ToggleKeys == {"isAutoRotating", "isPropellerSpinning", "showPoints"}

SliderKeys == Keys \ ToggleKeys

\* value strings a range input can hand to onChange: its min and its max
\* (the min, max and step attributes of each input), and for rotationSpeed
\* one value in between
SliderTexts(key) ==
    CASE key = "rotationSpeed" -> {<<"0">>, <<"1", ".", "5">>, <<"2">>}
      [] key = "propellerSpeed" -> {<<"0">>, <<"5", "0">>}
      [] key = "ambientIntensity" -> {<<"0">>, <<"5">>}
      [] key = "directionalIntensity" -> {<<"0">>, <<"5">>}
      [] key = "lightAngle" -> {<<"0">>, <<"9", "0">>, <<"1", "8", "0">>,
                                <<"3", "6", "0">>}
      [] OTHER -> {<<"0", ".", "5">>, <<"2">>}

\* the onChange of each range input: parseInt(value, 10) for lightAngle,
\* parseFloat(value) for the others
SliderValue(key, txt) == IF key = "lightAngle" THEN parseInt(txt) ELSE parseFloat(txt)

\* a range input is disabled while its toggle is off
SliderEnabled(key) ==
    CASE key = "rotationSpeed" -> Truthy(memory["isAutoRotating"])
      [] key = "propellerSpeed" -> Truthy(memory["isPropellerSpinning"])
      [] OTHER -> TRUE

-----------------------------------------------------------------------------
(* The initial state: the page has been loaded, App is mounted, the model  *)
(* is still loading.                                                       *)

\* rotation={[0, 3, 0]} of the model's group, in thousandths of a radian
InitialYaw == 3000

\* frame deltas, in hundredths of a second
Deltas == {1, 2}

\* isLoading of useLoading before the model has loaded: the loading overlay
\* is shown until Airplane mounts and calls setIsLoading(false)
InitialIsLoading == TRUE

\* the names Airplane's effect looks up in the model's graph
bladeNames == <<"AirFrance_obj_26", "AirFrance_obj_22">>
spinnerNames == <<"Cylinder002", "Cylinder005">>

PartNames == {bladeNames[i] : i \in 1..Len(bladeNames)}
                \cup {spinnerNames[i] : i \in 1..Len(spinnerNames)}

\* what getObjectByName returns for a name the graph does not hold
Undefined == "undefined"

\* scene.getObjectByName(name)
getObjectByName(sc, name) == IF name \in sc THEN name ELSE Undefined

\* a lookup that pushes whatever getObjectByName returns
FoundParts_unchecked(sc, names) ==
    [i \in 1..Len(names) |-> getObjectByName(sc, names[i])]

\* names.forEach(name => { part = scene.getObjectByName(name);
\* if (part) found.push(part) })
FoundParts(sc, names) ==
    SelectSeq([i \in 1..Len(names) |-> getObjectByName(sc, names[i])],
              LAMBDA part : part # Undefined)

\* every part at the rotation the model file gives it
RestRotation == [p \in PartNames |-> 0]

\* the state of App after its first render, for a persistent storage
Mounted(st) ==
    /\ storage = st
    /\ memory = LoadAll(st)
    /\ isPanelOpen = FALSE
    /\ activePoint = Null
    /\ isLoading = InitialIsLoading
    /\ modelMounted = FALSE
    /\ blades = <<>>
    /\ spinners = <<>>
    /\ partRot = RestRotation
    /\ frameError = FALSE
    /\ occluded = {}
    /\ keyWarning = FALSE
    /\ dots = 1
    /\ intervals = LoadingEffect(0, FALSE, InitialIsLoading)
    /\ yaw = InitialYaw
    /\ clock = 0
    /\ listeners = 0
    /\ pending = None
    /\ pressed = None
    /\ dispatched = NoEvent
    /\ view = AppRender

\* the catalog and the build of the application as it is shipped
Shipped == catalog = mockPoints /\ build = "production"

Init == Shipped /\ Mounted(EmptyStorage) /\ edits = 0 /\ scene = PartNames

-----------------------------------------------------------------------------
(* The actions.  Every handler ends with React's commit: the new render    *)
(* of App, and the panel effect when isPanelOpen changed.                  *)

Commit ==
    /\ listeners' = AfterCommit(listeners, isPanelOpen, isPanelOpen')
    /\ view' = AppRender'
    /\ intervals' = IF isLoading' = isLoading THEN intervals
                    ELSE LoadingEffect(intervals, isLoading, isLoading')
    /\ dots' = IF isLoading' = isLoading THEN dots ELSE 1
    /\ keyWarning' =
          (\/ keyWarning
           \/ /\ modelMounted'
              /\ DuplicateKeyWarning(build, AirplaneKeys(arePointsActuallyVisible',
                                                        catalog)))

\* the model file has loaded: Airplane mounts, its effect calls setIsLoading(false)
ModelLoaded ==
    /\ ~modelMounted
    /\ pending = None
    /\ modelMounted' = TRUE
    /\ blades' = FoundParts(scene, bladeNames)
    /\ spinners' = FoundParts(scene, spinnerNames)
    /\ isLoading' = FALSE
    /\ dispatched' = NoEvent
    /\ UNCHANGED <<storage, memory, isPanelOpen, activePoint, yaw, clock,
                   pending, pressed, edits, scene, partRot, frameError,
                   occluded, catalog, build>>
    /\ Commit

\* the callback Airplane gives useFrame: the new yaw
FrameYaw(isAutoRotating, mounted, rotationSpeed, delta, y) ==
    IF isAutoRotating /\ mounted THEN y + delta * rotationSpeed.n ELSE y

\* parts.forEach(part => part.rotation += step), from the i-th part on: the
\* rotations after it, and whether it threw (reading .rotation of undefined)
RECURSIVE SpinEach(_, _, _, _)
SpinEach(parts, i, step, rot) ==
    IF i > Len(parts) THEN [rot |-> rot, threw |-> FALSE]
    ELSE IF parts[i] = Undefined THEN [rot |-> rot, threw |-> TRUE]
    ELSE SpinEach(parts, i + 1, step, [rot EXCEPT ![parts[i]] = @ + step])

\* a callback that spins the blades only
FrameParts_bladesOnly(isPropellerSpinning, bl, sp, propellerSpeed, delta, rot) ==
    IF ~isPropellerSpinning THEN [rot |-> rot, threw |-> FALSE]
    ELSE SpinEach(bl, 1, delta * propellerSpeed.n, rot)

\* the callback Airplane gives useFrame, second part: the blades turn about
\* x by +delta * propellerSpeed, then the spinners about y by -delta * propellerSpeed
FrameParts(isPropellerSpinning, bl, sp, propellerSpeed, delta, rot) ==
    IF ~isPropellerSpinning THEN [rot |-> rot, threw |-> FALSE]
    ELSE LET b == IF Len(bl) > 0
                  THEN SpinEach(bl, 1, delta * propellerSpeed.n, rot)
                  ELSE [rot |-> rot, threw |-> FALSE]
         IN  IF b.threw THEN b
             ELSE IF Len(sp) > 0
                  THEN SpinEach(sp, 1, 0 - delta * propellerSpeed.n, b.rot)
                  ELSE b

\* one frame of the render loop: the callback runs once Airplane is mounted
Frame(delta) ==
    /\ pending = None
    /\ clock + delta <= MaxClock
    /\ clock' = clock + delta
    /\ yaw' = IF modelMounted
              THEN FrameYaw(view.isAutoRotating, modelMounted, view.rotationSpeed,
                            delta, yaw)
              ELSE yaw
    /\ LET r == IF modelMounted
                THEN FrameParts(view.isPropellerSpinning, blades, spinners,
                                view.propellerSpeed, delta, partRot)
                ELSE [rot |-> partRot, threw |-> FALSE]
       IN  partRot' = r.rot /\ frameError' = r.threw
    /\ dispatched' = NoEvent
    /\ UNCHANGED <<storage, memory, isPanelOpen, activePoint, isLoading,
                   modelMounted, listeners, view, pending, pressed, edits,
                   scene, blades, spinners, occluded, catalog, build,
                   keyWarning, dots, intervals>>

\* the pointer goes down on a target: the pointerdown event
PointerDown(t) ==
    /\ pending = None
    /\ pressed = None
    /\ TargetExists(t)
    /\ LET d == Deliver("pointerdown", Path(t))
       IN  /\ activePoint' = PointActivated(d, activePoint)
           /\ dispatched' = Event("pointerdown", t, d)
    /\ pending' = t
    /\ UNCHANGED <<storage, memory, isPanelOpen, isLoading, modelMounted, yaw,
                   clock, pressed, edits>>
    /\ UNCHANGED partVars
    /\ Commit

\* the target of the mousedown that follows a pointerdown: the pointerdown's
\* target, or when that element has left the document (a hotspot that
\* unmounted when its point was selected) its nearest ancestor still there
MouseTarget(t) == IF TargetExists(t) THEN t ELSE Path(t)[2]

\* whether the mousedown reaches the listeners on document: it does when its
\* target is in the document; for a target that has left the document the
\* browser either retargets the event to the ancestor or fires it at the
\* detached element, where it does not bubble to document
MouseDownReachesDocument(t) == IF TargetExists(t) THEN {TRUE} ELSE {TRUE, FALSE}

\* the mousedown event that follows the pointerdown, at the same place: it
\* reaches the listeners registered on document
MouseDown ==
    /\ pending # None
    /\ \E bubbles \in MouseDownReachesDocument(pending) :
         LET t == MouseTarget(pending)
             heard == bubbles /\ listeners > 0
         IN  /\ isPanelOpen' = IF heard THEN handleClickOutside(t, isPanelOpen)
                               ELSE isPanelOpen
             /\ dispatched' = Event("mousedown", t,
                                    IF heard THEN <<"document">> ELSE <<>>)
             /\ pressed' = t
    /\ pending' = None
    /\ UNCHANGED <<storage, memory, activePoint, isLoading, modelMounted, yaw,
                   clock, edits>>
    /\ UNCHANGED partVars
    /\ Commit

\* the click event: the pointer is released on the element it went down on,
\* or a button is activated from the keyboard
Click(t) ==
    /\ pending = None
    /\ pressed = t \/ (pressed = None /\ t \in KeyboardTargets)
    /\ TargetExists(t)
    /\ LET d == Deliver("click", Path(t))
           ms == IF Reached(d, "resetButton")
                 THEN resetSettings([mem |-> memory, st |-> storage])
                 ELSE [mem |-> memory, st |-> storage]
       IN  /\ activePoint' = IF Reached(d, "closeButton") \/ Reached(d, "backdrop")
                             THEN handleCloseInfoBox ELSE activePoint
           /\ isPanelOpen' = IF Reached(d, "button") THEN ~isPanelOpen ELSE isPanelOpen
           /\ memory' = ms.mem
           /\ storage' = ms.st
           /\ dispatched' = Event("click", t, d)
    /\ pressed' = None
    /\ UNCHANGED <<isLoading, modelMounted, yaw, clock, pending, edits>>
    /\ UNCHANGED partVars
    /\ Commit

\* the pointer is released somewhere else, or on an element that is gone
Release ==
    /\ pending = None
    /\ pressed # None
    /\ pressed' = None
    /\ dispatched' = NoEvent
    /\ UNCHANGED <<storage, memory, isPanelOpen, activePoint, isLoading,
                   modelMounted, yaw, clock, listeners, view, pending, edits>>
    /\ UNCHANGED partVars
    /\ UNCHANGED <<keyWarning, dots, intervals>>

\* a checkbox of the panel changes: its setter is called with !value
Toggle(key) ==
    /\ pending = None
    /\ edits < MaxEdits
    /\ edits' = edits + 1
    /\ LET ms == SetValue([mem |-> memory, st |-> storage], key, Not(memory[key]))
       IN  memory' = ms.mem /\ storage' = ms.st
    /\ dispatched' = NoEvent
    /\ UNCHANGED <<isPanelOpen, activePoint, isLoading, modelMounted, yaw, clock,
                   pending, pressed>>
    /\ UNCHANGED partVars
    /\ Commit

\* a range input of the panel changes: its setter is called with the parsed value
Slide(key, txt) ==
    /\ pending = None
    /\ edits < MaxEdits
    /\ SliderEnabled(key)
    /\ edits' = edits + 1
    /\ LET ms == SetValue([mem |-> memory, st |-> storage], key, SliderValue(key, txt))
       IN  memory' = ms.mem /\ storage' = ms.st
    /\ dispatched' = NoEvent
    /\ UNCHANGED <<isPanelOpen, activePoint, isLoading, modelMounted, yaw, clock,
                   pending, pressed>>
    /\ UNCHANGED partVars
    /\ Commit

\* the page is loaded again: App is mounted anew over the persistent storage
Reload ==
    /\ UNCHANGED <<storage, edits, scene, catalog, build>>
    /\ memory' = LoadAll(storage)
    /\ isPanelOpen' = FALSE
    /\ activePoint' = Null
    /\ isLoading' = InitialIsLoading
    /\ modelMounted' = FALSE
    /\ blades' = <<>>
    /\ spinners' = <<>>
    /\ partRot' = RestRotation
    /\ frameError' = FALSE
    /\ occluded' = {}
    /\ keyWarning' = FALSE
    /\ dots' = 1
    /\ intervals' = LoadingEffect(0, FALSE, InitialIsLoading)
    /\ yaw' = InitialYaw
    /\ clock' = 0
    /\ listeners' = 0
    /\ pending' = None
    /\ pressed' = None
    /\ dispatched' = NoEvent
    /\ view' = AppRender'

Next ==
    \/ ModelLoaded
    \/ \E delta \in Deltas : Frame(delta)
    \/ \E t \in Targets : PointerDown(t)
    \/ MouseDown
    \/ \E t \in Targets : Click(t)
    \/ Release
    \/ \E key \in ToggleKeys : Toggle(key)
    \/ \E key \in SliderKeys : \E txt \in SliderTexts(key) : Slide(key, txt)
    \/ Reload

Spec == Init /\ [][Next]_vars


-----------------------------------------------------------------------------
(* The page loaded over a persistent storage that anything may have        *)
(* written: the initial load of every hook, and its reloads.               *)

\* texts an entry may hold: the empty text, texts that are not JSON, and
\* JSON of every type
StartupTexts ==
    { <<>>,
      <<"a", "b", "c">>,
      <<"1", ".">>,
      <<"n", "u", "l", "l">>,
      <<"\"", "a", "b", "c", "\"">>,
      <<"{", "}">>,
      <<"t", "r", "u", "e">>,
      <<"f", "a", "l", "s", "e">>,
      <<"0">>,
      <<"-", "5">>,
      <<"0", ".", "3">>,
      <<"4", "0", "0">> }

RECURSIVE StoragesUpTo(_)
StoragesUpTo(n) ==
    IF n = 0 THEN {EmptyStorage}
    ELSE LET less == StoragesUpTo(n - 1)
         IN  less \cup {[st EXCEPT ![k] = Item(txt)] :
                           st \in less, k \in Keys, txt \in StartupTexts}

InitStartup ==
    \E st \in StoragesUpTo(MaxStartupEntries) :
       Shipped /\ Mounted(st) /\ edits = 0 /\ scene = PartNames

NextStartup == Reload

SpecStartup == InitStartup /\ [][NextStartup]_vars


-----------------------------------------------------------------------------
(* The preference store on its own: the page loaded over a storage that    *)
(* may hold anything, then edits, resets and reloads.                      *)

NextStore ==
    \/ \E key \in ToggleKeys : Toggle(key)
    \/ \E key \in SliderKeys : \E txt \in SliderTexts(key) : Slide(key, txt)
    \/ Click("resetButton")
    \/ Reload

SpecStore == InitStartup /\ [][NextStore]_vars


-----------------------------------------------------------------------------
(* Storage operations that throw.  setValue catches what setItem throws,   *)
(* after it has called setStoredValue; resetSettings calls removeItem      *)
(* outside any try, so a removeItem that throws ends the handler there.    *)
(* The state updates queued before the throw are still committed.          *)

\* setValue when setItem throws: the field is set, the catch logs the error
SetValueThrows(ms, key, value) ==
    [mem |-> [ms.mem EXCEPT ![key] = value], st |-> ms.st]

\* the nine setters of resetSettings, setItem throwing for the keys in failed
RECURSIVE SetDefaultsFaulty(_, _, _)
SetDefaultsFaulty(ms, i, failed) ==
    IF i > Len(ResetOrder) THEN ms
    ELSE LET k == ResetOrder[i]
         IN  SetDefaultsFaulty(IF k \in failed
                               THEN SetValueThrows(ms, k, Defaults[k])
                               ELSE SetValue(ms, k, Defaults[k]),
                               i + 1, failed)

\* the removeItem calls of resetSettings, the call number throwsAt throwing
\* (none throws when throwsAt is 0): the calls before it have removed their
\* entries, the calls after it are never made
RECURSIVE RemoveAllFaulty(_, _, _)
RemoveAllFaulty(ms, i, throwsAt) ==
    IF i > Len(ResetOrder) \/ i = throwsAt THEN ms
    ELSE RemoveAllFaulty(RemoveItem(ms, ResetOrder[i]), i + 1, throwsAt)

resetSettingsFaulty(ms, failed, throwsAt) ==
    RemoveAllFaulty(SetDefaultsFaulty(ms, 1, failed), 1, throwsAt)

\* a click on the reset button while storage operations may throw
ClickResetFaulty(failed, throwsAt) ==
    /\ pending = None
    /\ pressed = None
    /\ LET ms == resetSettingsFaulty([mem |-> memory, st |-> storage],
                                     failed, throwsAt)
       IN  memory' = ms.mem /\ storage' = ms.st
    /\ dispatched' = Event("click", "resetButton",
                           Deliver("click", Path("resetButton")))
    /\ UNCHANGED <<isPanelOpen, activePoint, isLoading, modelMounted, yaw, clock,
                   pending, pressed, edits>>
    /\ UNCHANGED partVars
    /\ Commit

NextFaulty ==
    \/ \E key \in ToggleKeys : Toggle(key)
    \/ \E key \in SliderKeys : \E txt \in SliderTexts(key) : Slide(key, txt)
    \/ \E failed \in {f \in SUBSET Keys : Cardinality(f) <= MaxFaults} :
         \E throwsAt \in 0..Len(ResetOrder) : ClickResetFaulty(failed, throwsAt)
    \/ Reload

SpecFaulty == Init /\ [][NextFaulty]_vars


-----------------------------------------------------------------------------
(* The model file may lack any of the four named sub-parts: the viewer     *)
(* over every such graph, with the frames, the selection and the panel's   *)
(* controls.                                                               *)

InitScene ==
    \E sc \in SUBSET PartNames :
       Shipped /\ Mounted(EmptyStorage) /\ edits = 0 /\ scene = sc

NextScene ==
    \/ ModelLoaded
    \/ \E delta \in Deltas : Frame(delta)
    \/ \E t \in PointIds : PointerDown(t)
    \/ MouseDown
    \/ Click("closeButton")
    \/ Release
    \/ \E key \in ToggleKeys : Toggle(key)
    \/ \E key \in SliderKeys : \E txt \in SliderTexts(key) : Slide(key, txt)

SpecScene == InitScene /\ [][NextScene]_vars


-----------------------------------------------------------------------------
(* Occlusion.  As the camera orbits and the model turns, the model's own   *)
(* geometry comes to lie between the camera and some anchors.  The hotspot *)
(* of the current application is <Html center>, with no occlude prop, so   *)
(* its element is shown wherever the geometry is.                          *)

\* whether the Html of a rendered hotspot shows its element, given whether
\* the model's geometry hides the anchor: without the occlude prop, always
HtmlShows(isOccluded) == TRUE

\* the hotspots on screen: those App's commit rendered, once Airplane is
\* mounted, that their Html shows
OverlaysShown ==
    {a \in view.overlays : modelMounted /\ HtmlShows(a \in occluded)}

\* the camera or the model has moved: the anchors of hidden are now behind
\* the model's geometry
Occlude(hidden) ==
    /\ modelMounted
    /\ pending = None
    /\ hidden # occluded
    /\ occluded' = hidden
    /\ dispatched' = NoEvent
    /\ UNCHANGED <<storage, memory, isPanelOpen, activePoint, isLoading,
                   modelMounted, scene, blades, spinners, partRot, frameError,
                   catalog, build, keyWarning, dots, intervals,
                   yaw, clock, listeners, view, pending, pressed, edits>>

NextOcclusion ==
    \/ ModelLoaded
    \/ \E delta \in Deltas : Frame(delta)
    \/ \E hidden \in {h \in SUBSET PointIds : Cardinality(h) <= MaxOccluded} :
         Occlude(hidden)
    \/ \E key \in ToggleKeys : Toggle(key)
    \/ Reload

SpecOcclusion == Init /\ [][NextOcclusion]_vars


-----------------------------------------------------------------------------
(* Airplane over any catalog, in either build: catalogs of points of the   *)
(* built-in catalog and of a point that has the id of another.             *)

\* the points a catalog is made of: two of the built-in points, and a third
\* point with the id of the first
CatalogPoints ==
    {mockPoints[1], mockPoints[2],
     [id |-> mockPoints[1].id, position |-> <<0, 0, 0>>]}

RECURSIVE CatalogsUpTo(_)
CatalogsUpTo(n) ==
    IF n = 0 THEN {<<>>}
    ELSE LET less == CatalogsUpTo(n - 1)
         IN  less \cup {Append(c, pt) : c \in less, pt \in CatalogPoints}

InitCatalog ==
    \E c \in CatalogsUpTo(MaxCatalog) : \E b \in Builds :
       /\ catalog = c
       /\ build = b
       /\ Mounted(EmptyStorage)
       /\ edits = 0
       /\ scene = PartNames

NextCatalog ==
    \/ ModelLoaded
    \/ \E delta \in Deltas : Frame(delta)
    \/ \E key \in ToggleKeys : Toggle(key)
    \/ Reload

SpecCatalog == InitCatalog /\ [][NextCatalog]_vars


-----------------------------------------------------------------------------
(* The loading indicator: its interval ticks once a second while it is     *)
(* registered.                                                             *)

\* a tick of a registered interval: its callback sets the dots of the
\* mounted LoadingAnimation; on an unmounted one the update is dropped
Tick ==
    /\ intervals > 0
    /\ pending = None
    /\ dots' = IF isLoading THEN NextDots(dots) ELSE dots
    /\ dispatched' = [NoEvent EXCEPT !.type = "tick"]
    /\ UNCHANGED <<storage, memory, isPanelOpen, activePoint, isLoading,
                   modelMounted, yaw, clock, listeners, view, pending, pressed,
                   edits, keyWarning, intervals>>
    /\ UNCHANGED partVars

NextLoading ==
    \/ Tick
    \/ ModelLoaded
    \/ \E delta \in Deltas : Frame(delta)
    \/ \E key \in ToggleKeys : Toggle(key)
    \/ \E key \in SliderKeys : \E txt \in SliderTexts(key) : Slide(key, txt)
    \/ Reload

SpecLoading == Init /\ [][NextLoading]_vars


-----------------------------------------------------------------------------
(* The earlier variant src/unnamed/part_001: its panel.  The trigger       *)
(* button's onClick, the panel effect and its cleanup are those of the     *)
(* current application, and so are the controls of the six preferences    *)
(* it has (same ranges, same parsers, same hook); its outside-click        *)
(* handler tests the panel only.  The preferences start at the values of   *)
(* the current application, which the panel's open state never reads.      *)

\* the targets of the earlier variant the model presses: the trigger
\* button, the panel, and the canvas outside both
EarlierTargets == {"button", "panel", "canvas"}

\* the preferences of part_001 that have a checkbox, and a range input
EarlierToggleKeys == {"isAutoRotating", "showPoints"}
EarlierSliderKeys == {"ambientIntensity", "directionalIntensity", "lightAngle",
                      "pointSize"}

\* handleClickOutside(event) of part_001, the new isPanelOpen: closed when
\* the panel does not contain the target
handleClickOutsideEarlier(target, open) ==
    IF target \notin {"panel", "resetButton"} THEN FALSE ELSE open

\* the mousedown that follows a pointerdown, in part_001
MouseDownEarlier ==
    /\ pending # None
    /\ LET heard == listeners > 0
       IN  /\ isPanelOpen' = IF heard
                             THEN handleClickOutsideEarlier(pending, isPanelOpen)
                             ELSE isPanelOpen
           /\ dispatched' = Event("mousedown", pending,
                                  IF heard THEN <<"document">> ELSE <<>>)
    /\ pressed' = pending
    /\ pending' = None
    /\ UNCHANGED <<storage, memory, activePoint, isLoading, modelMounted, yaw,
                   clock, edits>>
    /\ UNCHANGED partVars
    /\ Commit

NextEarlier ==
    \/ ModelLoaded
    \/ \E t \in EarlierTargets : PointerDown(t)
    \/ MouseDownEarlier
    \/ \E t \in EarlierTargets : Click(t)
    \/ Release
    \/ \E key \in EarlierToggleKeys : Toggle(key)
    \/ \E key \in EarlierSliderKeys : \E txt \in SliderTexts(key) : Slide(key, txt)
    \/ Reload

SpecEarlier == Init /\ [][NextEarlier]_vars


-----------------------------------------------------------------------------
(* The preference store over a well-formed storage: every entry is the     *)
(* JSON text of a value of its field's domain.                             *)

\* JSON texts of values of a field's domain, "5.0" among them: a text that
\* is not the one JSON.stringify gives for its value
WellFormedTexts(key) ==
    CASE key \in ToggleKeys -> {<<"t", "r", "u", "e">>, <<"f", "a", "l", "s", "e">>}
      [] key = "lightAngle" -> {<<"0">>, <<"9", "0">>}
      [] key \in {"rotationSpeed", "pointSize"} -> {<<"0", ".", "5">>, <<"2">>}
      [] OTHER -> {<<"0">>, <<"5", ".", "0">>, <<"0", ".", "3">>}

RECURSIVE WellFormedUpTo(_)
WellFormedUpTo(n) ==
    IF n = 0 THEN {EmptyStorage}
    ELSE LET less == WellFormedUpTo(n - 1)
         IN  less \cup UNION {{[st EXCEPT ![k] = Item(txt)] :
                                  st \in less, txt \in WellFormedTexts(k)} :
                              k \in Keys}

InitWellFormed ==
    \E st \in WellFormedUpTo(MaxStartupEntries) :
       Shipped /\ Mounted(st) /\ edits = 0 /\ scene = PartNames

SpecWellFormed == InitWellFormed /\ [][NextStore]_vars


-----------------------------------------------------------------------------
(* The properties.                                                         *)

\* steps of the model, told apart by what they leave behind
IsFrame == clock' > clock
HotspotDown == dispatched'.type = "pointerdown" /\ dispatched'.target \in PointIds
ClickOn(t) == dispatched'.type = "click" /\ dispatched'.target = t
IsMouseDown == dispatched'.type = "mousedown"

\* C1: in every state and for every anchor of the catalog, the anchor's
\* hotspot is among the overlays App renders if and only if showPoints is
\* true and no point is selected; so no hotspot is rendered while showPoints
\* is false, and none while a point is selected.
C1_OverlayVisibility ==
    \A a \in PointIds :
        a \in view.overlays <=> (memory["showPoints"] = Bool(TRUE) /\ activePoint = Null)

\* the hotspots are switched off, with no point selected, and none is rendered
C1_Witness ==
    /\ modelMounted
    /\ memory["showPoints"] = Bool(FALSE)
    /\ activePoint = Null
    /\ view.overlays = {}

\* C2: a frame with elapsed time delta advances the yaw by delta * rotationSpeed
\* when isAutoRotating is true, no point is selected and the model is mounted,
\* and leaves the yaw exactly as it was otherwise; so the yaw does not change
\* over frames during which rotation is off or a point is selected.
C2_FrameRotation ==
    [][IsFrame =>
         yaw' = IF /\ memory["isAutoRotating"] = Bool(TRUE)
                   /\ activePoint = Null
                   /\ modelMounted
                THEN yaw + (clock' - clock) * memory["rotationSpeed"].n
                ELSE yaw]_vars

\* a point is selected, frames have run, and the model has turned before
C2_Witness ==
    /\ activePoint # Null
    /\ clock = MaxClock
    /\ dispatched = NoEvent
    /\ yaw > InitialYaw

\* C3: in every state the orbit controls are enabled if and only if no point
\* is selected.
C3_OrbitEnabled == view.orbitEnabled <=> activePoint = Null

\* a point has just been selected and the orbit controls are disabled
C3_Witness ==
    /\ activePoint # Null
    /\ dispatched.type = "pointerdown"
    /\ ~view.orbitEnabled

\* C4: every change of activePoint is from null to an anchor or from an anchor
\* to null, never from one anchor to another, and no hotspot is activated
\* while a point is selected.
C4_SelectionSteps ==
    [][/\ activePoint' # activePoint => (activePoint = Null \/ activePoint' = Null)
       /\ HotspotDown => activePoint = Null]_vars

\* a hotspot has just been activated
C4_Witness ==
    /\ dispatched.type = "pointerdown"
    /\ dispatched.target \in PointIds
    /\ activePoint = dispatched.target

\* C5: a pointerdown on the hotspot of anchor a selects exactly a, reaches no
\* handler beyond the hotspot's own (its propagation is stopped), and changes
\* nothing else: the panel, the preferences and persistent storage stay as
\* they were, and no detail overlay is dismissed.
C5_HotspotPointerDown ==
    [][HotspotDown =>
         /\ activePoint' = dispatched'.target
         /\ dispatched'.reached = <<dispatched'.target>>
         /\ view'.infoBox = dispatched'.target
         /\ UNCHANGED <<isPanelOpen, memory, storage, yaw, listeners>>]_vars

\* a hotspot has just been activated while the panel is open
C5_Witness ==
    /\ dispatched.type = "pointerdown"
    /\ dispatched.target \in PointIds
    /\ activePoint = dispatched.target
    /\ isPanelOpen

\* C6: a click on the close button or on the backdrop of the InfoBox clears
\* the selection; a click inside the box that is not on the close button
\* does not reach the backdrop's handler and leaves the selection as it was.
C6_InfoBoxClicks ==
    [][/\ ClickOn("closeButton") \/ ClickOn("backdrop") => activePoint' = Null
       /\ ClickOn("infoBox") =>
            /\ ~Reached(dispatched'.reached, "backdrop")
            /\ activePoint' = activePoint
            /\ activePoint' # Null]_vars

\* a click inside the box has just been dispatched, and the point is still selected
C6_Witness ==
    /\ dispatched = Event("click", "infoBox", <<"infoBox">>)
    /\ activePoint # Null

\* C7: opening a point's detail never closes the settings panel and vice
\* versa: pressing a hotspot while the panel is open leaves it open, pressing
\* the close button or the backdrop while the panel is open leaves it open,
\* a change of the selection leaves the panel as it is, and toggling the
\* panel leaves the selection as it is.
C7_PanelAndSelectionIndependent ==
    [][/\ (isPanelOpen /\ pending \in PointIds \cup {"closeButton", "backdrop"})
            => isPanelOpen'
       /\ activePoint' # activePoint /\ dispatched'.type # None
            => isPanelOpen' = isPanelOpen
       /\ ClickOn("button") => activePoint' = activePoint]_vars

\* C8: with the panel open, a mousedown outside the panel and the trigger
\* button closes the panel, a mousedown inside the panel leaves it open, and
\* a mousedown on the trigger button leaves it open, so that the click that
\* follows toggles it once and it ends closed.
C8_PanelDismissal ==
    [][/\ (IsMouseDown /\ isPanelOpen
             /\ dispatched'.target \notin {"panel", "resetButton", "button"}
             /\ dispatched'.reached # <<>>)
            => ~isPanelOpen'
       /\ (IsMouseDown /\ dispatched'.target \in {"panel", "resetButton", "button"})
            => isPanelOpen' = isPanelOpen
       /\ (pressed = "button" /\ pressed' = "button") => isPanelOpen' = isPanelOpen
       /\ (pressed = "button" /\ ClickOn("button")) => isPanelOpen' = ~isPanelOpen]_vars

\* the pointer is down on the trigger button, the mousedown has reached the
\* outside-click listener, and the panel is still open
C8_Witness ==
    /\ pressed = "button"
    /\ dispatched = Event("mousedown", "button", <<"document">>)
    /\ isPanelOpen

\* C9: in every state the outside-click listener is registered on document
\* exactly once while the panel is open and not at all while it is closed.
C9_ListenerWhileOpen == listeners = IF isPanelOpen THEN 1 ELSE 0

\* an outside mousedown has just closed the panel, and the listener is gone
C9_Witness ==
    /\ dispatched.type = "mousedown"
    /\ dispatched.reached = <<"document">>
    /\ ~isPanelOpen
    /\ listeners = 0

\* the declared domain of each preference field
InDomain(key, v) ==
    CASE key \in ToggleKeys -> v.t = "bool"
      [] key \in {"rotationSpeed", "pointSize"} -> v.t = "num" /\ v.n > 0
      [] key = "lightAngle" -> v.t = "num" /\ v.n >= 0 /\ v.n < 3600
      [] OTHER -> v.t = "num" /\ v.n >= 0

\* C10: whatever persistent storage holds when the page is loaded, every
\* preference is loaded as a value of its declared domain or as its default:
\* a wrongly typed or out-of-domain entry is never adopted.
C10_LoadedInDomain ==
    \A k \in Keys : InDomain(k, memory[k]) \/ memory[k] = Defaults[k]

\* C11: starting from the defaults, after any sequence of edits made through
\* the panel's controls and of resets, every numeric preference is inside its
\* declared domain: rotationSpeed > 0, propellerSpeed >= 0, ambientIntensity
\* >= 0, directionalIntensity >= 0, pointSize > 0, 0 <= lightAngle < 360.
C11_EditedInDomain ==
    \A k \in SliderKeys : InDomain(k, memory[k])

\* the built-in defaults, as the reset and the hooks spell them
BuiltInDefaults ==
    [isAutoRotating |-> Bool(TRUE), ambientIntensity |-> Num(0),
     directionalIntensity |-> Num(7), lightAngle |-> Num(450),
     showPoints |-> Bool(TRUE), pointSize |-> Num(10), rotationSpeed |-> Num(3),
     isPropellerSpinning |-> Bool(TRUE), propellerSpeed |-> Num(150)]

\* C12: from any state (any values in memory, any entries in storage), a
\* click on the reset button leaves all nine fields at the built-in defaults
\* and no entry in storage for any of the nine keys; and whenever storage
\* holds no entry, so after a reload that follows the reset, the nine fields
\* are exactly the built-in defaults.
C12_ResetThenReload ==
    /\ [][ClickOn("resetButton") =>
            /\ memory' = BuiltInDefaults
            /\ \A k \in Keys : ~storage'[k].present
            /\ LoadAll(storage') = BuiltInDefaults]_vars
    /\ [](storage = EmptyStorage => memory = BuiltInDefaults)

\* a reset has just been clicked after an edit had been made
C12_Witness ==
    /\ dispatched.type = "click"
    /\ dispatched.target = "resetButton"
    /\ edits > 0
    /\ memory = BuiltInDefaults
    /\ storage = EmptyStorage

\* C13: a click on the reset button is all-or-nothing, also when a storage
\* write or removal throws part-way: after it either all nine fields are at
\* their defaults and storage holds none of the nine entries, or neither the
\* fields nor storage have changed.
C13_ResetAtomic ==
    [][ClickOn("resetButton") =>
          \/ memory' = BuiltInDefaults /\ storage' = EmptyStorage
          \/ memory' = memory /\ storage' = storage]_vars

\* the values a field's control can produce in the current state
Producible(key) ==
    IF key \in ToggleKeys THEN {Not(memory[key])}
    ELSE {SliderValue(key, txt) : txt \in SliderTexts(key)}

\* C14: every edit survives a reload: when a control calls the setter of a
\* field with a value v it can produce (false and 0 included), the field is v,
\* a load of the storage the edit leaves yields v for that field, and yields
\* for every other field what a load yielded before the edit.
C14_EditSurvivesReload ==
    [][edits' = edits + 1 =>
          \E k \in Keys :
             /\ memory'[k] \in Producible(k)
             /\ storage'[k].present
             /\ LoadAll(storage')[k] = memory'[k]
             /\ \A j \in Keys \ {k} :
                   /\ LoadAll(storage')[j] = LoadAll(storage)[j]
                   /\ memory'[j] = memory[j]]_vars

\* after edits to a falsy value (a toggle set to false, a slider set to 0)
\* the page has been loaded again, and the field holds that value
C14_Witness ==
    /\ edits > 0
    /\ clock = 0 /\ ~modelMounted
    /\ memory = LoadAll(storage)
    /\ \E k \in ToggleKeys : memory[k] = Bool(FALSE) /\ storage[k].present
    /\ \E k \in SliderKeys : memory[k] = Num(0) /\ memory[k] # Defaults[k]
                              /\ storage[k].present

\* the sub-parts Airplane has registered
Registered(parts) == {parts[i] : i \in 1..Len(parts)}

\* the turn of one frame: the seconds of the frame times the speed the last
\* commit gave Airplane
FrameTurn == (clock' - clock) * view.propellerSpeed.n

\* C15 as it is stated: on every frame, if isPropellerSpinning is true every
\* registered sub-part, blade or spinner, has its own rotation advanced by
\* delta * propellerSpeed, whatever isAutoRotating and the selection are, and
\* if it is false no sub-part's rotation changes.
C15_AllAdvance ==
    [][IsFrame /\ modelMounted =>
          IF view.isPropellerSpinning
          THEN \A p \in Registered(blades) \cup Registered(spinners) :
                  partRot'[p] = partRot[p] + FrameTurn
          ELSE partRot' = partRot]_vars

\* C15, amended: on every frame, if isPropellerSpinning is true every
\* registered blade has its rotation about x advanced by delta *
\* propellerSpeed and every registered spinner has its rotation about y
\* turned back by delta * propellerSpeed, whatever isAutoRotating and the
\* selection are; if it is false no sub-part's rotation changes.
C15_BladesAdvanceSpinnersReverse ==
    [][IsFrame /\ modelMounted =>
          IF view.isPropellerSpinning
          THEN /\ \A p \in Registered(blades) :
                     partRot'[p] = partRot[p] + FrameTurn
               /\ \A p \in Registered(spinners) :
                     partRot'[p] = partRot[p] - FrameTurn
          ELSE partRot' = partRot]_vars

\* the sub-parts have turned while a point was selected and the rotation of
\* the model was switched off
C15_Witness ==
    /\ activePoint # Null
    /\ ~Truthy(memory["isAutoRotating"])
    /\ yaw = InitialYaw
    /\ clock > 0
    /\ \E p \in Registered(blades) : partRot[p] > 0
    /\ \E p \in Registered(spinners) : partRot[p] < 0

\* the names of a list that the model's graph holds
Present(names) == {names[i] : i \in 1..Len(names)} \cap scene

\* C16: for every subset of the four named sub-parts missing from the
\* model's graph, and while the model's group is not mounted, the lookup and
\* every frame callback complete without an error: the parts registered are
\* exactly the named parts the graph holds, a missing part is never turned,
\* the parts present turn on a frame that spins the sub-parts, and until
\* the group is mounted a frame changes neither the yaw nor any sub-part.
C16_MissingPartsTolerated ==
    /\ [](~frameError)
    /\ [](modelMounted => /\ Registered(blades) = Present(bladeNames)
                          /\ Registered(spinners) = Present(spinnerNames))
    /\ [](\A p \in PartNames \ scene : partRot[p] = 0)
    /\ [][IsFrame /\ modelMounted /\ view.isPropellerSpinning /\ FrameTurn # 0 =>
             \A p \in scene : partRot'[p] # partRot[p]]_vars
    /\ [][IsFrame /\ ~modelMounted => yaw' = yaw /\ partRot' = partRot]_vars

\* a graph that lacks a blade and a spinner: after frames before and after
\* the mount, the blade and the spinner it holds have turned
C16_Witness ==
    /\ Cardinality(Present(bladeNames)) = 1
    /\ Cardinality(Present(spinnerNames)) = 1
    /\ modelMounted
    /\ clock = MaxClock
    /\ ~frameError
    /\ \A p \in scene : partRot[p] # 0
    /\ \A p \in scene : partRot[p] \in {150, 0 - 150}

\* the distance of two numbers
Dist(a, b) == IF a >= b THEN a - b ELSE b - a

\* the light is at (x, y, z), approximately: within 5 thousandths
LightNear(x, y, z) ==
    LET p == view.directionalLightPosition
    IN  /\ ~p.nan
        /\ Dist(p.x, x) <= 5
        /\ Dist(p.y, y) <= 5
        /\ Dist(p.z, z) <= 5

\* C17: the position the directional light is rendered at is (10 cos t, 10,
\* 10 sin t) for t = lightAngle degrees: exactly (10, 10, 0) for 0,
\* approximately (0, 10, 10) for 90, (-10, 10, 0) for 180 and (7.07, 10,
\* 7.07) for the default 45, always at height 10 and at distance 10 from the
\* vertical axis; and it depends on lightAngle alone: no step that leaves
\* lightAngle as it is (a frame, a selection change, an edit of another
\* field) changes it.
C17_LightPosition ==
    /\ [](LET a == memory["lightAngle"].n
              p == view.directionalLightPosition
          IN  /\ p.y = 10000
              /\ Dist(p.x * p.x + p.z * p.z, 10000 * 10000) <= 100000
              /\ a \in {0, 3600} => p.x = 10000 /\ p.z = 0
              /\ a = 900 => LightNear(0, 10000, 10000)
              /\ a = 1800 => LightNear(0 - 10000, 10000, 0)
              /\ a = 450 => LightNear(7071, 10000, 7071))
    /\ [][memory'["lightAngle"] = memory["lightAngle"] =>
             view'.directionalLightPosition = view.directionalLightPosition]_vars

\* the light angle has been set to 90: the light is at (0, 10, 10), and
\* stays there while a point is selected and frames have run
C17_Witness ==
    /\ memory["lightAngle"] = Num(900)
    /\ LightNear(0, 10000, 10000)
    /\ activePoint # Null
    /\ clock > 0

\* C19 as it is stated: with no entry in storage and no selection, exactly
\* three anchors are displayable, the pilot's cabin ("cockpit") among them.
C19_ThreeAnchors ==
    storage = EmptyStorage /\ activePoint = Null =>
        Cardinality(view.overlays) = 3 /\ "cockpit" \in view.overlays

\* C19, amended: with no entry in storage, isAutoRotating and showPoints are
\* true and, while no point is selected, exactly the six anchors of the
\* catalog are displayable; the activation of any anchor a yields
\* activePoint = a and no displayable hotspot; a click on the backdrop then
\* sets activePoint to null and, if showPoints is still true, makes all six
\* hotspots displayable again.
C19_EndToEnd ==
    /\ [](storage = EmptyStorage =>
             /\ memory["isAutoRotating"] = Bool(TRUE)
             /\ memory["showPoints"] = Bool(TRUE)
             /\ activePoint = Null =>
                   view.overlays = PointIds /\ Cardinality(view.overlays) = 6)
    /\ [][HotspotDown =>
             /\ activePoint' = dispatched'.target
             /\ view'.overlays = {}]_vars
    /\ [][ClickOn("backdrop") =>
             /\ activePoint' = Null
             /\ Truthy(memory'["showPoints"]) =>
                   view'.overlays = PointIds /\ Cardinality(view'.overlays) = 6]_vars

\* the scenario has been played to its end over an empty storage: the
\* backdrop has just been clicked and the six hotspots are back
C19_Witness ==
    /\ storage = EmptyStorage
    /\ dispatched.type = "click"
    /\ dispatched.target = "backdrop"
    /\ activePoint = Null
    /\ modelMounted
    /\ Cardinality(view.overlays) = 6

\* C20: whenever the model's own geometry lies between the camera and an
\* anchor, the anchor's hotspot is not shown.
C20_OccludedSuppressed ==
    \A a \in occluded : a \notin OverlaysShown

\* two points of a catalog have the same id
HasDuplicateId(pts) ==
    \E i, j \in 1..Len(pts) : i < j /\ pts[i].id = pts[j].id

\* C21: for every catalog handed to Airplane, once Airplane has mounted a
\* duplicate anchor id has been reported; and the ids of the built-in
\* catalog are pairwise distinct.
C21_DuplicateIdReported ==
    /\ modelMounted /\ HasDuplicateId(catalog) => keyWarning
    /\ ~HasDuplicateId(mockPoints)

\* C22: while the loading indicator is mounted exactly one interval is
\* registered, and once it is unmounted none is, so that no tick occurs
\* after the unmount; the dot count stays within 1..3 and every tick takes
\* it from 1 to 2, from 2 to 3 and from 3 to 1.
C22_LoadingInterval ==
    /\ [](intervals = IF view.loading THEN 1 ELSE 0)
    /\ [](dots \in 1..3)
    /\ [][dispatched'.type = "tick" =>
             /\ view.loading
             /\ dots' = (dots % 3) + 1]_vars

\* the model has loaded: the indicator, which had its interval, is
\* unmounted, no interval is left, and frames run on
C22_Witness ==
    /\ ~view.loading
    /\ modelMounted
    /\ intervals = 0
    /\ clock > 0
    /\ yaw # InitialYaw

\* C23: in the earlier variant, a press and click on the trigger button
\* toggles the panel exactly once: the mousedown on the button leaves the
\* panel as it is (it does not run the outside-close path) and the click
\* that follows inverts it, so that an open panel ends closed.
C23_EarlierTriggerTogglesOnce ==
    [][/\ IsMouseDown /\ dispatched'.target = "button" => isPanelOpen' = isPanelOpen
       /\ ClickOn("button") => isPanelOpen' = ~isPanelOpen]_vars

\* C24: from an empty or well-formed storage, in every state and for each
\* of the nine keys: an entry storage holds for the key is JSON of the
\* field's value in memory (it parses, to that value), and when storage
\* holds no entry for the key the field is at its built-in default.
C24_StorageMirrorsMemory ==
    \A k \in Keys :
       IF storage[k].present
       THEN /\ JSONparse(storage[k].text).ok
            /\ JSONparse(storage[k].text).v = memory[k]
       ELSE memory[k] = BuiltInDefaults[k]

\* after an edit of one field over a storage that held an entry of another,
\* two entries mirror two fields that are not at their defaults
C24_Witness ==
    /\ edits > 0
    /\ Cardinality({k \in Keys : storage[k].present
                                 /\ memory[k] # BuiltInDefaults[k]}) >= 2
    /\ \E k \in Keys : ~storage[k].present

\* C25: the selection and the panel are no part of the persisted settings:
\* a click on the reset button and every edit of a preference leave
\* activePoint and isPanelOpen as they are; the activation of a hotspot and
\* the clearing of the selection (a click on the backdrop or on the close
\* button) leave storage as it is; and a reload of the page with the model
\* mounted, whatever the selection and the panel were, leaves activePoint
\* null and isPanelOpen false.
C25_SelectionAndPanelNotPersisted ==
    /\ [][ClickOn("resetButton") \/ edits' > edits =>
             UNCHANGED <<activePoint, isPanelOpen>>]_vars
    /\ [][HotspotDown \/ ClickOn("backdrop") \/ ClickOn("closeButton") =>
             UNCHANGED <<storage, memory>>]_vars
    /\ [][modelMounted /\ ~modelMounted' =>
             activePoint' = Null /\ ~isPanelOpen' /\ ~view'.panelOpen
                /\ view'.infoBox = Null]_vars

\* the reset button has just been clicked while a point was selected, the
\* panel was open and an edit had been made: the selection and the panel
\* are as they were
C25_Witness ==
    /\ dispatched.type = "click"
    /\ dispatched.target = "resetButton"
    /\ activePoint # Null
    /\ isPanelOpen
    /\ edits > 0
    /\ storage = EmptyStorage

=============================================================================
